---- MODULE Spec2Model ----
(***************************************************************************)
(* The work-breakdown tree engine of aplan (src/src/subsystem/wsb.rs) over *)
(* the task store HashMap<TaskId, Task>.  A TaskId is a sequence of        *)
(* 1-based sibling indices, the root being the empty sequence; the store   *)
(* is a function from the identifiers present to task records.  f64 values *)
(* are integers; a sum or difference with more than MantissaBits           *)
(* significant bits is rounded to the nearest value that has that many,    *)
(* ties to the even one, as f64 does at 53 bits.                           *)
(***************************************************************************)
EXTENDS Integers, Sequences, FiniteSets, TLC

VARIABLES tasks, pre, call, res, run

vars == <<tasks, pre, call, res, run>>

\* ------------------------------------------------------------------ bounds
MaxTasks == 3
MaxDepth == 3
MaxChild == 3
MaxVal == 1
MaxIndex == 11
MaxTextLen == 4
MaxRoundTasks == 2
\* f64 keeps 53 significant bits, more than the integers here can reach; the
\* width is narrowed so that sums which do not fit are within range
MantissaBits == 3

Names == {"a", "b"}
RootNames == {"Project"}
Vals == 0..MaxVal

\* ------------------------------------------------------------- identifiers
get_root_id == <<>>

\* has_parent with the guard off by one: the root is given a parent
has_parent_off_by_one(id) == Len(id) >= 0

\* parent() fails with NoParent on the root, the only identifier without one
has_parent(id) == Len(id) >= 1

parent(id) == SubSeq(id, 1, Len(id) - 1)

child_idx(id) == id[Len(id)]

\* new_child_id taking child_num as a 0-based position
new_child_id_zero_based(id, child_num) == Append(id, child_num - 1)

\* new_child_id fails with BadTaskIdNum on child_num = 0; its caller here,
\* add_task, passes the incremented num_child, which is at least 1
new_child_id(id, child_num) == Append(id, child_num)

\* child_ids with the range 1..num_childs, exclusive, for 1..num_childs+1
child_ids_short(id, num_childs) == [i \in 1..(num_childs - 1) |-> Append(id, i)]

\* the sequence of the num_childs direct child identifiers, in index order
child_ids(id, num_childs) == [i \in 1..num_childs |-> Append(id, i)]

\* root, then every prefix, up to and including id
path(id) == [i \in 1..(Len(id) + 1) |-> SubSeq(id, 1, i - 1)]

\* -------------------------------------------------------------------- task
\* Task::new creating the task with a planned value of 1
Task_new_valued(id, name) ==
    [ id           |-> id,
      name         |-> name,
      planned_value |-> 1,
      actual_cost  |-> 0,
      num_child    |-> 0,
      status       |-> "InProgress" ]

Task_new(id, name) ==
    [ id           |-> id,
      name         |-> name,
      planned_value |-> 0,
      actual_cost  |-> 0,
      num_child    |-> 0,
      status       |-> "InProgress" ]

is_trunk(task) == task.num_child > 0

is_leaf(task) == task.num_child = 0

\* Task::child_ids goes through the identifier stored in the task
task_child_ids(task) == child_ids(task.id, task.num_child)

\* ------------------------------------------------------------------- store
map_insert(map, k, v) == [x \in (DOMAIN map) \cup {k} |-> IF x = k THEN v ELSE map[x]]

\* HashMap::remove leaving the entry where it is
map_remove_keep(map, k) == map

map_remove(map, k) == [x \in (DOMAIN map) \ {k} |-> map[x]]

\* an operation's outcome: the store as the call leaves it, the error kind
\* ("Ok" when none) and the returned task, if any, as a sequence of length <= 1
Ok(map, ret) == [tasks |-> map, err |-> "Ok", ret |-> ret]

Err(map, kind) == [tasks |-> map, err |-> kind, ret |-> <<>>]

WSB_new(name) == map_insert(<<>>, get_root_id, Task_new(get_root_id, name))

\* ------------------------------------------------------------ f64 rounding
\* the result of an f64 + or - whose exact value is x: x itself when it has at
\* most MantissaBits significant bits, else the nearest multiple of the unit
\* q at x's magnitude, a tie going to the even multiple
RECURSIVE round_at(_, _)
round_at(x, q) ==
    IF x < (2 ^ MantissaBits) * q
    THEN LET below == (x \div q) * q
             rest == x - below
         IN  IF 2 * rest < q THEN below
             ELSE IF 2 * rest > q THEN below + q
             ELSE IF (below \div q) % 2 = 0 THEN below ELSE below + q
    ELSE round_at(x, 2 * q)

rounded(x) == IF x < 0 THEN 0 - round_at(0 - x, 1) ELSE round_at(x, 1)

\* the closures handed to apply_along_path
apply_func(func, task) ==
    CASE func.kind = "status"        -> [task EXCEPT !.status = "InProgress"]
      [] func.kind = "actual_cost"   -> [task EXCEPT !.actual_cost = rounded(@ + func.diff)]
      [] func.kind = "planned_value" -> [task EXCEPT !.planned_value = rounded(@ + func.diff)]

RECURSIVE apply_from(_, _, _, _)
apply_from(ids, i, func, map) ==
    IF i > Len(ids) THEN Ok(map, <<>>)
    ELSE IF ids[i] \notin DOMAIN map THEN Err(map, "TaskNotFound")
    ELSE apply_from(ids, i + 1, func,
                    [map EXCEPT ![ids[i]] = apply_func(func, map[ids[i]])])

apply_along_path(id, func, map) == apply_from(path(id), 1, func, map)

\* add_task inserting the child before it has looked the parent up
add_task_insert_first(parent_task_id, name, map) ==
    LET first_id == Append(parent_task_id, 1)
        t0 == map_insert(map, first_id, Task_new(first_id, name))
    IN  IF parent_task_id \notin DOMAIN map THEN Err(t0, "TaskNotFound")
        ELSE LET num_child == map[parent_task_id].num_child + 1
                 t1 == [map EXCEPT ![parent_task_id].num_child = num_child]
                 task_id == Append(parent_task_id, num_child)
                 t2 == map_insert(t1, task_id, Task_new(task_id, name))
                 r3 == apply_along_path(task_id, [kind |-> "status"], t2)
             IN  IF r3.err # "Ok" THEN r3
                 ELSE Ok(r3.tasks, <<r3.tasks[task_id]>>)

add_task(parent_task_id, name, map) ==
    IF parent_task_id \notin DOMAIN map THEN Err(map, "TaskNotFound")
    ELSE LET num_child == map[parent_task_id].num_child + 1
             t1 == [map EXCEPT ![parent_task_id].num_child = num_child]
             task_id == new_child_id(parent_task_id, num_child)
             t2 == map_insert(t1, task_id, Task_new(task_id, name))
             r3 == apply_along_path(task_id, [kind |-> "status"], t2)
         IN  IF r3.err # "Ok" THEN r3
             ELSE Ok(r3.tasks, <<r3.tasks[task_id]>>)

\* value_diff with the operands swapped
value_diff_swapped(new_value, old_value) == rounded(old_value - new_value)

\* the amount a setter adds to every ancestor
value_diff(new_value, old_value) == rounded(new_value - old_value)

\* children_are_done answering false for a task without children
children_are_done_some(task_id, map) ==
    LET ids == task_child_ids(map[task_id])
    IN  /\ DOMAIN ids # {}
        /\ \A i \in DOMAIN ids : map[ids[i]].status = "Done"

\* children_are_done looking at the first child only
children_are_done_first(task_id, map) ==
    LET ids == task_child_ids(map[task_id])
    IN  \A i \in DOMAIN ids : i = 1 => map[ids[i]].status = "Done"

\* unwrap on a missing entry panics; the store is left as it is at that point
children_are_done(task_id, map) ==
    LET ids == task_child_ids(map[task_id])
    IN  \A i \in DOMAIN ids : map[ids[i]].status = "Done"

children_present(task_id, map) ==
    /\ task_id \in DOMAIN map
    /\ LET ids == task_child_ids(map[task_id])
       IN  \A i \in DOMAIN ids : ids[i] \in DOMAIN map

\* set_actual_cost's closing walk, from the task up to the root
RECURSIVE mark_done_from(_, _, _)
mark_done_from(ids, i, map) ==
    IF i < 1 THEN Ok(map, <<>>)
    ELSE IF ~children_present(ids[i], map) THEN Err(map, "Panic")
    ELSE IF children_are_done(ids[i], map)
         THEN mark_done_from(ids, i - 1, [map EXCEPT ![ids[i]].status = "Done"])
         ELSE mark_done_from(ids, i - 1, map)

set_actual_cost(task_id, actual_cost, map) ==
    IF ~has_parent(task_id) THEN Err(map, "NoParent")
    ELSE IF task_id \notin DOMAIN map THEN Err(map, "TaskNotFound")
    ELSE IF is_trunk(map[task_id]) THEN Err(map, "TrunkCannotChangeCost")
    ELSE LET parent_id == parent(task_id)
             diff == value_diff(actual_cost, map[task_id].actual_cost)
             t1 == [map EXCEPT ![task_id].actual_cost = actual_cost]
             r2 == apply_along_path(parent_id, [kind |-> "actual_cost", diff |-> diff], t1)
         IN  IF r2.err # "Ok" THEN r2
             ELSE mark_done_from(path(task_id), Len(path(task_id)), r2.tasks)

set_planned_value(task_id, planned_value, map) ==
    IF ~has_parent(task_id) THEN Err(map, "NoParent")
    ELSE IF task_id \notin DOMAIN map THEN Err(map, "TaskNotFound")
    ELSE IF is_trunk(map[task_id]) THEN Err(map, "TrunkCannotChangeValue")
    ELSE LET parent_id == parent(task_id)
             diff == value_diff(planned_value, map[task_id].planned_value)
             t1 == [map EXCEPT ![task_id].planned_value = planned_value]
         IN  apply_along_path(parent_id, [kind |-> "planned_value", diff |-> diff], t1)

remove_task_stats_from_tasks(task_id, map) ==
    LET r1 == set_actual_cost(task_id, 0, map)
    IN  IF r1.err # "Ok" THEN r1
        ELSE set_planned_value(task_id, 0, r1.tasks)

\* shifted_id decrementing the first index whatever the removal depth
shifted_id_first(child_id, layer_idx) == [child_id EXCEPT ![1] = @ - 1]

\* shifted_id decrementing the entry's own (last) index instead of the one at
\* the removal depth
shifted_id_last(child_id, layer_idx) == [child_id EXCEPT ![Len(child_id)] = @ - 1]

\* the identifier an entry moves to: the index at layer_idx (0-based) less one
shifted_id(child_id, layer_idx) == [child_id EXCEPT ![layer_idx + 1] = @ - 1]

\* subtract_id moving the entry without writing the new identifier into it
subtract_id_stale(child_id, layer_idx, map) ==
    IF child_id \notin DOMAIN map THEN Err(map, "TaskNotFound")
    ELSE LET new_task_id == [child_id EXCEPT ![layer_idx + 1] = @ - 1]
         IN  Ok(map_insert(map_remove(map, child_id), new_task_id, map[child_id]), <<>>)

\* subtract_id moving the entry alone, without descending into its children
subtract_id_flat(child_id, layer_idx, map) ==
    IF child_id \notin DOMAIN map THEN Err(map, "TaskNotFound")
    ELSE LET new_task_id == [child_id EXCEPT ![layer_idx + 1] = @ - 1]
             task == [map[child_id] EXCEPT !.id = new_task_id]
         IN  Ok(map_insert(map_remove(map, child_id), new_task_id, task), <<>>)

\* moves the entry at child_id, and then every entry below it, to the identifier
\* with the index at layer_idx (0-based) decremented
RECURSIVE subtract_id(_, _, _), subtract_each(_, _, _, _)
subtract_id(child_id, layer_idx, map) ==
    IF child_id \notin DOMAIN map THEN Err(map, "TaskNotFound")
    ELSE LET num_child == map[child_id].num_child
             old_task_id == child_id
             new_task_id == shifted_id(child_id, layer_idx)
             task == [map[old_task_id] EXCEPT !.id = new_task_id]
             t1 == map_insert(map_remove(map, old_task_id), new_task_id, task)
         IN  subtract_each(child_ids(child_id, num_child), 1, layer_idx, t1)

\* try_for_each over the children: stops at the first error
subtract_each(ids, i, layer_idx, map) ==
    IF i > Len(ids) THEN Ok(map, <<>>)
    ELSE LET r == subtract_id(ids[i], layer_idx, map)
         IN  IF r.err # "Ok" THEN r
             ELSE subtract_each(ids, i + 1, layer_idx, r.tasks)

\* remove's loop over the parent's children: those after the removed one shift
RECURSIVE shift_later(_, _, _, _, _)
shift_later(parent_childs, index, child_idx0, layer_idx, map) ==
    IF index >= Len(parent_childs) THEN Ok(map, <<>>)
    ELSE IF child_idx0 < index
         THEN LET r == subtract_id(parent_childs[index + 1], layer_idx, map)
              IN  IF r.err # "Ok" THEN r
                  ELSE shift_later(parent_childs, index + 1, child_idx0, layer_idx, r.tasks)
         ELSE shift_later(parent_childs, index + 1, child_idx0, layer_idx, map)

\* has_children with the comparison off by one
has_children_off_by_one(task) == task.num_child > 1

\* remove refuses a task that has children
has_children(task) == task.num_child > 0

\* last_child_id naming the parent's first child
last_child_id_first(task_id, layer_idx, parent_childs) ==
    [task_id EXCEPT ![layer_idx + 1] = 1]

\* last_child_id from the parent's child count after the decrement
last_child_id_after(task_id, layer_idx, parent_childs) ==
    [task_id EXCEPT ![layer_idx + 1] = Len(parent_childs) - 1]

\* the identifier of the final erase: the parent's last child before the call
last_child_id(task_id, layer_idx, parent_childs) ==
    [task_id EXCEPT ![layer_idx + 1] = Len(parent_childs)]

remove(task_id, map) ==
    IF task_id \notin DOMAIN map THEN Err(map, "TaskNotFound")
    ELSE IF has_children(map[task_id]) THEN Err(map, "TrunkCannotBeRemoved")
    ELSE LET r1 == remove_task_stats_from_tasks(task_id, map)
         IN
         IF r1.err # "Ok" THEN r1
         ELSE LET parent_id == parent(task_id)
                  t1 == r1.tasks
              IN
              IF ~has_parent(task_id) THEN Err(t1, "NoParent")
              ELSE IF parent_id \notin DOMAIN t1 THEN Err(t1, "TaskNotFound")
              \* u32 num_child -= 1 below zero: the debug build panics
              ELSE IF t1[parent_id].num_child = 0 THEN Err(t1, "Panic")
              ELSE LET t2 == [t1 EXCEPT ![parent_id].num_child = @ - 1]
                       parent_childs == child_ids(t2[parent_id].id, t2[parent_id].num_child + 1)
                       layer_idx == Len(task_id) - 1
                       child_idx0 == child_idx(task_id) - 1
                       task == t2[task_id]
                       t3 == map_remove(t2, task_id)
                       r4 == shift_later(parent_childs, 0, child_idx0, layer_idx, t3)
                       last_id == last_child_id(task_id, layer_idx, parent_childs)
                   IN  IF r4.err # "Ok" THEN r4
                       ELSE Ok(map_remove(r4.tasks, last_id), <<task>>)

\* is_later skipping the child next to the removed one
is_later_skip_next(child_idx0, index) == child_idx0 + 1 < index

\* remove's test inside the loop: the child at position index (0-based) comes
\* after the removed one
is_later(child_idx0, index) == child_idx0 < index

\* the children remove's loop hands to subtract_id, in the order of the loop
RECURSIVE later_childs(_, _, _)
later_childs(parent_childs, index, child_idx0) ==
    IF index >= Len(parent_childs) THEN <<>>
    ELSE (IF is_later(child_idx0, index) THEN <<parent_childs[index + 1]>> ELSE <<>>)
         \o later_childs(parent_childs, index + 1, child_idx0)

\* ---------------------------------------------------------- sibling queries
\* A query answers [err, at, ret]: err is "Ok" or the error kind, at is the
\* identifier the error carries, ret the task found.
Found(task) == [err |-> "Ok", at |-> <<>>, ret |-> task]

Failed(kind, id) == [err |-> kind, at |-> id, ret |-> <<>>]

\* TaskId::new_child_id with its failure: BadTaskIdNum carries no identifier
new_child_id_checked(id, child_num) ==
    IF child_num = 0 THEN Failed("BadTaskIdNum", <<>>)
    ELSE Found(new_child_id(id, child_num))

\* TaskId::prev_sibling and TaskId::next_sibling: parent()? and child_idx()?
\* first, then the new identifier under the parent
TaskId_prev_sibling(id) ==
    IF ~has_parent(id) THEN Failed("NoParent", id)
    ELSE IF Len(id) = 0 THEN Failed("NoChildIndex", id)
    ELSE new_child_id_checked(parent(id), child_idx(id) - 1)

TaskId_next_sibling(id) ==
    IF ~has_parent(id) THEN Failed("NoParent", id)
    ELSE IF Len(id) = 0 THEN Failed("NoChildIndex", id)
    ELSE new_child_id_checked(parent(id), child_idx(id) + 1)

get_task(task_id, map) ==
    IF task_id \in DOMAIN map THEN Found(map[task_id])
    ELSE Failed("TaskNotFound", task_id)

\* next_sibling looking up the task itself
next_sibling_self(task_id, map) == get_task(task_id, map)

\* WSB::next_sibling and WSB::prev_sibling: the ? passes a failure of the
\* identifier arithmetic on as it is; map_err renames only a failed lookup
next_sibling(task_id, map) ==
    LET next_sibling_id == TaskId_next_sibling(task_id)
    IN  IF next_sibling_id.err # "Ok" THEN next_sibling_id
        ELSE IF get_task(next_sibling_id.ret, map).err # "Ok"
             THEN Failed("NoNextSibling", task_id)
        ELSE get_task(next_sibling_id.ret, map)

prev_sibling(task_id, map) ==
    LET prev_sibling_id == TaskId_prev_sibling(task_id)
    IN  IF prev_sibling_id.err # "Ok" THEN prev_sibling_id
        ELSE IF get_task(prev_sibling_id.ret, map).err # "Ok"
             THEN Failed("NoPrevSibling", task_id)
        ELSE get_task(prev_sibling_id.ret, map)

\* ------------------------------------------------------------- tree drawing
\* The drawing is the sequence of its lines below the root's: the task drawn,
\* the connector ("more" for the has-more one, "last" for the last-child one)
\* and the prefix, one "bar" or "blank" per level above.  panic is a failed
\* unwrap of a lookup.
RECURSIVE subtasks_to_tree_str(_, _, _), tree_each(_, _, _, _)
subtasks_to_tree_str(root_id, prefix, map) ==
    IF root_id \notin DOMAIN map THEN [panic |-> TRUE, lines |-> <<>>]
    ELSE tree_each(task_child_ids(map[root_id]), 1, prefix, map)

\* for_each over the children, from the i-th on
tree_each(ids, i, prefix, map) ==
    IF i > Len(ids) THEN [panic |-> FALSE, lines |-> <<>>]
    ELSE IF ids[i] \notin DOMAIN map THEN [panic |-> TRUE, lines |-> <<>>]
    ELSE LET more == next_sibling(ids[i], map).err = "Ok"
             line == [id |-> map[ids[i]].id,
                      connector |-> IF more THEN "more" ELSE "last",
                      prefix |-> prefix]
             below == subtasks_to_tree_str(
                          ids[i], Append(prefix, IF more THEN "bar" ELSE "blank"), map)
             rest == tree_each(ids, i + 1, prefix, map)
         IN  [panic |-> below.panic \/ rest.panic,
              lines |-> <<line>> \o below.lines \o rest.lines]

to_tree_str(map) ==
    IF get_root_id \notin DOMAIN map THEN [panic |-> TRUE, lines |-> <<>>]
    ELSE subtasks_to_tree_str(get_root_id, <<>>, map)

\* ----------------------------------------------------------------- metrics
\* An f64 result is a quotient n/d of integers with d > 0, or one of the
\* values a division by zero yields: NaN, +inf, -inf.  Two quotients are the
\* same number when they cross-multiply equal.
F64(n, d) == [kind |-> "num", n |-> n, d |-> d]

NaN == [kind |-> "nan", n |-> 0, d |-> 1]

Inf == [kind |-> "inf", n |-> 1, d |-> 1]

NegInf == [kind |-> "inf", n |-> -1, d |-> 1]

Sign(x) == IF x > 0 THEN 1 ELSE IF x < 0 THEN -1 ELSE 0

Abs(x) == IF x < 0 THEN -x ELSE x

is_nan(a) == a.kind = "nan"

f64_mul(a, b) ==
    IF is_nan(a) \/ is_nan(b) THEN NaN
    ELSE IF a.kind = "inf" \/ b.kind = "inf"
         THEN IF a.n = 0 \/ b.n = 0 THEN NaN
              ELSE IF Sign(a.n) * Sign(b.n) > 0 THEN Inf ELSE NegInf
    ELSE F64(a.n * b.n, a.d * b.d)

f64_div(a, b) ==
    IF is_nan(a) \/ is_nan(b) THEN NaN
    ELSE IF a.kind = "inf"
         THEN IF b.kind = "inf" THEN NaN
              ELSE IF Sign(a.n) * Sign(b.n) >= 0 THEN a
              ELSE IF a.n > 0 THEN NegInf ELSE Inf
    ELSE IF b.kind = "inf" THEN F64(0, 1)
    ELSE IF b.n = 0
         THEN IF a.n = 0 THEN NaN ELSE IF a.n > 0 THEN Inf ELSE NegInf
    ELSE F64(a.n * b.d * Sign(b.n), a.d * Abs(b.n))

\* the keys of the leaf tasks, and of those among them with a given status
leaf_tasks(map) == { k \in DOMAIN map : is_leaf(map[k]) }

\* done_tasks without the leaf filter
done_tasks_with_trunks(map) == { k \in DOMAIN map : map[k].status = "Done" }

done_tasks(map) == { k \in DOMAIN map : is_leaf(map[k]) /\ map[k].status = "Done" }

todo_tasks(map) == { k \in DOMAIN map : is_leaf(map[k]) /\ map[k].status # "Done" }

in_progress_tasks(map) ==
    { k \in DOMAIN map : is_leaf(map[k]) /\ map[k].status = "InProgress" }

\* task_count leaving the root out
task_count_without_root(map) == Cardinality(DOMAIN map) - 1

\* tasks.len(): every entry of the store, trunks and the root included
task_count(map) == Cardinality(DOMAIN map)

WSB_planned_value(map) == F64(map[get_root_id].planned_value, 1)

WSB_actual_cost(map) == F64(map[get_root_id].actual_cost, 1)

completion_percentage(map) ==
    f64_div(F64(Cardinality(done_tasks(map)), 1), F64(task_count(map), 1))

earned_value(map) == f64_mul(WSB_planned_value(map), completion_percentage(map))

spi(map) ==
    LET result == f64_div(earned_value(map), WSB_planned_value(map))
    IN  IF is_nan(result) THEN F64(0, 1) ELSE result

cpi(map) ==
    LET result == f64_div(earned_value(map), WSB_actual_cost(map))
    IN  IF is_nan(result) THEN F64(0, 1) ELSE result

\* --------------------------------------------------------------- text form
\* A text is a sequence of one-character strings.
Digits == <<"0", "1", "2", "3", "4", "5", "6", "7", "8", "9">>

IsDigit(c) == \E i \in DOMAIN Digits : Digits[i] = c

DigitValue(c) == (CHOOSE i \in DOMAIN Digits : Digits[i] = c) - 1

\* u32::to_string keeping the last digit only
u32_to_string_last_digit(n) == <<Digits[(n % 10) + 1]>>

\* u32::to_string: decimal, most significant digit first, no leading zero
RECURSIVE u32_to_string(_)
u32_to_string(n) ==
    IF n < 10 THEN <<Digits[n + 1]>>
    ELSE Append(u32_to_string(n \div 10), Digits[(n % 10) + 1])

RECURSIVE join(_, _)
join(segments, sep) ==
    IF Len(segments) = 0 THEN <<>>
    ELSE IF Len(segments) = 1 THEN segments[1]
    ELSE segments[1] \o sep \o join(Tail(segments), sep)

\* impl Display for TaskId
to_string(id) == join([i \in DOMAIN id |-> u32_to_string(id[i])], <<".">>)

\* str::split: the pieces between the separators; a text without a separator
\* is one piece, a leading or trailing separator gives an empty piece
RECURSIVE split(_, _)
split(text, sep) ==
    IF \A i \in DOMAIN text : text[i] # sep THEN <<text>>
    ELSE LET i == CHOOSE j \in DOMAIN text :
                      text[j] = sep /\ \A k \in 1..(j - 1) : text[k] # sep
         IN  <<SubSeq(text, 1, i - 1)>> \o split(SubSeq(text, i + 1, Len(text)), sep)

RECURSIVE digits_value(_)
digits_value(digits) ==
    IF Len(digits) = 0 THEN 0
    ELSE 10 * digits_value(SubSeq(digits, 1, Len(digits) - 1))
             + DigitValue(digits[Len(digits)])

\* str::parse::<u32>: an optional leading "+", then one or more decimal
\* digits; anything else is an error.  A value above u32::MAX is an error
\* too; it takes ten digits, more than a text here has.
parse_u32(segment) ==
    LET digits == IF Len(segment) > 1 /\ segment[1] = "+" THEN Tail(segment)
                  ELSE segment
    IN  IF Len(digits) = 0 \/ \E i \in DOMAIN digits : ~IsDigit(digits[i])
        THEN [err |-> "ParseIntError", ret |-> 0]
        ELSE [err |-> "Ok", ret |-> digits_value(digits)]

\* TaskId::parse: [err, ret] with the identifier on success and the text,
\* which BadTaskIdString carries, on failure
parse(text) ==
    IF Len(text) = 0 THEN [err |-> "Ok", ret |-> get_root_id]
    ELSE LET segments == split(text, ".")
             numbers == [i \in DOMAIN segments |-> parse_u32(segments[i])]
         IN  IF \E i \in DOMAIN numbers : numbers[i].err # "Ok"
             THEN [err |-> "BadTaskIdString", ret |-> text]
             ELSE [err |-> "Ok", ret |-> [i \in DOMAIN numbers |-> numbers[i].ret]]

\* ------------------------------------------------------------ state machine
\* the identifiers a caller passes: every one present, and one that is absent,
\* the root's next child (every operation rejects an absent identifier at its
\* first lookup, whichever it is)
ArgIds == (DOMAIN tasks) \cup
          { new_child_id(get_root_id, tasks[get_root_id].num_child + 1) }

NoCall == [op |-> "new", id |-> <<>>, name |-> "", v |-> 0]

\* the locals of a remove that is under way, step by step; pc = "idle" outside
\* one.  held is the task subtract_id has taken out and not yet put back.
NoRun ==
    [ pc |-> "idle", task_id |-> <<>>, parent_childs |-> <<>>, layer_idx |-> 0,
      child_idx |-> 0, stack |-> <<>>, child_id |-> <<>>, new_task_id |-> <<>>,
      num_child |-> 0, held |-> <<>>, task |-> <<>> ]

Init ==
    \E name \in RootNames :
        /\ tasks = WSB_new(name)
        /\ pre = tasks
        /\ call = [NoCall EXCEPT !.name = name]
        /\ res = [err |-> "Ok", ret |-> <<>>]
        /\ run = NoRun

Returns(r) ==
    /\ tasks' = r.tasks
    /\ pre' = tasks
    /\ res' = [err |-> r.err, ret |-> r.ret]
    /\ UNCHANGED run

\* the tree stays within MaxTasks tasks besides the root, MaxDepth levels and
\* MaxChild children per task
CanGrow(parent_task_id) ==
    parent_task_id \in DOMAIN tasks =>
        /\ Cardinality(DOMAIN tasks) <= MaxTasks
        /\ Len(parent_task_id) < MaxDepth
        /\ tasks[parent_task_id].num_child < MaxChild

AddTask ==
    \E parent_task_id \in ArgIds, name \in Names :
        /\ CanGrow(parent_task_id)
        /\ call' = [op |-> "add_task", id |-> parent_task_id, name |-> name, v |-> 0]
        /\ Returns(add_task(parent_task_id, name, tasks))

Remove ==
    \E task_id \in ArgIds :
        /\ call' = [op |-> "remove", id |-> task_id, name |-> "", v |-> 0]
        /\ Returns(remove(task_id, tasks))

SetPlannedValue ==
    \E task_id \in ArgIds, planned_value \in Vals :
        /\ call' = [op |-> "set_planned_value", id |-> task_id, name |-> "", v |-> planned_value]
        /\ Returns(set_planned_value(task_id, planned_value, tasks))

SetActualCost ==
    \E task_id \in ArgIds, actual_cost \in Vals :
        /\ call' = [op |-> "set_actual_cost", id |-> task_id, name |-> "", v |-> actual_cost]
        /\ Returns(set_actual_cost(task_id, actual_cost, tasks))

Next == AddTask \/ Remove \/ SetPlannedValue \/ SetActualCost

Spec == Init /\ [][Next]_vars

\* --------------------------------------------- values whose sums are rounded
\* The same operations on a small tree, called with non-negative values large
\* enough that the sum of two of them has more significant bits than an f64
\* keeps, by a client that never hands add_task a leaf whose planned_value or
\* actual_cost is not 0.
RoundVals == {0, 2 ^ MantissaBits - 2, 2 ^ MantissaBits - 1}

valued_leaf(parent_task_id, map) ==
    /\ parent_task_id \in DOMAIN map
    /\ is_leaf(map[parent_task_id])
    /\ (map[parent_task_id].planned_value # 0 \/ map[parent_task_id].actual_cost # 0)

AddTaskUnvalued ==
    \E parent_task_id \in DOMAIN tasks, name \in Names :
        /\ Cardinality(DOMAIN tasks) <= MaxRoundTasks
        /\ ~valued_leaf(parent_task_id, tasks)
        /\ call' = [op |-> "add_task", id |-> parent_task_id, name |-> name, v |-> 0]
        /\ Returns(add_task(parent_task_id, name, tasks))

SetPlannedValueRounded ==
    \E task_id \in DOMAIN tasks, planned_value \in RoundVals :
        /\ call' = [op |-> "set_planned_value", id |-> task_id, name |-> "", v |-> planned_value]
        /\ Returns(set_planned_value(task_id, planned_value, tasks))

SetActualCostRounded ==
    \E task_id \in DOMAIN tasks, actual_cost \in RoundVals :
        /\ call' = [op |-> "set_actual_cost", id |-> task_id, name |-> "", v |-> actual_cost]
        /\ Returns(set_actual_cost(task_id, actual_cost, tasks))

NextRounded == AddTaskUnvalued \/ Remove \/ SetPlannedValueRounded \/ SetActualCostRounded

SpecRounded == Init /\ [][NextRounded]_vars

\* ------------------------------------------- text form of identifiers, alone
\* The conversions are pure: the store stays as constructed, `call` holds the
\* input (an identifier in id, a text in name) and `res` the answer.
RECURSIVE SeqsUpTo(_, _)
SeqsUpTo(S, n) ==
    IF n = 0 THEN {<<>>}
    ELSE SeqsUpTo(S, n - 1) \cup
         { Append(s, x) : s \in { t \in SeqsUpTo(S, n - 1) : Len(t) = n - 1 }, x \in S }

\* the identifiers reachable from the root through child_ids
Ids == SeqsUpTo(1..MaxIndex, MaxDepth)

Chars == {"0", "1", "2", ".", "+", "-", "a"}

Texts == SeqsUpTo(Chars, MaxTextLen)

InitParse ==
    /\ tasks = WSB_new("Project")
    /\ pre = tasks
    /\ res = [err |-> "Ok", ret |-> <<>>]
    /\ run = NoRun
    /\ \/ \E id \in Ids : call = [op |-> "id", id |-> id, name |-> <<>>, v |-> 0]
       \/ \E text \in Texts : call = [op |-> "text", id |-> <<>>, name |-> text, v |-> 0]

FormatId ==
    /\ call.op = "id"
    /\ call' = [call EXCEPT !.op = "to_string"]
    /\ res' = [err |-> "Ok", ret |-> to_string(call.id)]
    /\ UNCHANGED <<tasks, pre, run>>

\* parse applied to the text to_string has just produced
ParseToString ==
    /\ call.op = "to_string"
    /\ call' = [call EXCEPT !.op = "parse_to_string", !.name = res.ret]
    /\ res' = parse(res.ret)
    /\ UNCHANGED <<tasks, pre, run>>

\* parse applied to any text
ParseText ==
    /\ call.op = "text"
    /\ call' = [call EXCEPT !.op = "parse"]
    /\ res' = parse(call.name)
    /\ UNCHANGED <<tasks, pre, run>>

NextParse == FormatId \/ ParseToString \/ ParseText

SpecParse == InitParse /\ [][NextParse]_vars

\* ------------------------------------------------- remove, mutation by mutation
\* Every write remove makes to the store is a step of its own, so that the
\* stores in between can be looked at.  `pre`, `call` and `res` follow remove
\* alone here: the other operations are whole calls and clear them.
Cleared(r) ==
    /\ run.pc = "idle"
    /\ tasks' = r.tasks
    /\ pre' = r.tasks
    /\ call' = NoCall
    /\ res' = [err |-> "Ok", ret |-> <<>>]
    /\ UNCHANGED run

AddTaskWhole ==
    \E parent_task_id \in DOMAIN tasks, name \in Names :
        /\ CanGrow(parent_task_id)
        /\ Cleared(add_task(parent_task_id, name, tasks))

SetPlannedValueWhole ==
    \E task_id \in DOMAIN tasks, planned_value \in Vals :
        Cleared(set_planned_value(task_id, planned_value, tasks))

SetActualCostWhole ==
    \E task_id \in DOMAIN tasks, actual_cost \in Vals :
        Cleared(set_actual_cost(task_id, actual_cost, tasks))

\* remove stops with an error: the `?` returns at once, the store stays as the
\* steps so far have left it
Abort(kind) ==
    /\ res' = [err |-> kind, ret |-> <<>>]
    /\ run' = NoRun
    /\ UNCHANGED <<tasks, pre, call>>

\* the trunk guard and remove_task_stats_from_tasks; a call that fails here
\* has not written to the store
RemoveStats ==
    \E task_id \in DOMAIN tasks :
        /\ run.pc = "idle"
        /\ ~has_children(tasks[task_id])
        /\ remove_task_stats_from_tasks(task_id, tasks).err = "Ok"
        /\ tasks' = remove_task_stats_from_tasks(task_id, tasks).tasks
        /\ pre' = tasks
        /\ call' = [op |-> "remove", id |-> task_id, name |-> "", v |-> 0]
        /\ res' = [err |-> "Running", ret |-> <<>>]
        /\ run' = [NoRun EXCEPT !.pc = "decrement", !.task_id = task_id]

\* parent()?, parent.num_child -= 1, and the locals computed from it
DecrementParent ==
    /\ run.pc = "decrement"
    /\ IF ~has_parent(run.task_id) THEN Abort("NoParent")
       ELSE IF parent(run.task_id) \notin DOMAIN tasks THEN Abort("TaskNotFound")
       ELSE IF tasks[parent(run.task_id)].num_child = 0 THEN Abort("Panic")
       ELSE LET parent_id == parent(run.task_id)
                t2 == [tasks EXCEPT ![parent_id].num_child = @ - 1]
            IN  /\ tasks' = t2
                /\ run' = [run EXCEPT
                       !.pc = "erase",
                       !.parent_childs = child_ids(t2[parent_id].id, t2[parent_id].num_child + 1),
                       !.layer_idx = Len(run.task_id) - 1,
                       !.child_idx = child_idx(run.task_id) - 1]
                /\ UNCHANGED <<pre, call, res>>

\* tasks.remove(&task_id): the target leaves the store
EraseTarget ==
    /\ run.pc = "erase"
    /\ IF run.task_id \notin DOMAIN tasks THEN Abort("TaskNotFound")
       ELSE /\ tasks' = map_remove(tasks, run.task_id)
            /\ run' = [run EXCEPT
                   !.pc = "shift",
                   !.task = <<tasks[run.task_id]>>,
                   !.stack = later_childs(run.parent_childs, 0, run.child_idx)]
            /\ UNCHANGED <<pre, call, res>>

\* subtract_id up to tasks.remove(&old_task_id): the entry is taken out and
\* relabelled, and is in the store under neither identifier
ShiftTake ==
    /\ run.pc = "shift"
    /\ Len(run.stack) > 0
    /\ LET child_id == Head(run.stack)
       IN  IF child_id \notin DOMAIN tasks THEN Abort("TaskNotFound")
           ELSE LET new_task_id == shifted_id(child_id, run.layer_idx)
                IN  /\ tasks' = map_remove(tasks, child_id)
                    /\ run' = [run EXCEPT
                           !.pc = "insert",
                           !.stack = Tail(run.stack),
                           !.child_id = child_id,
                           !.new_task_id = new_task_id,
                           !.num_child = tasks[child_id].num_child,
                           !.held = <<[tasks[child_id] EXCEPT !.id = new_task_id]>>]
                    /\ UNCHANGED <<pre, call, res>>

\* tasks.insert(new_task_id, task); the entry's children, named from its old
\* identifier, are next, before the siblings still waiting
ShiftInsert ==
    /\ run.pc = "insert"
    /\ tasks' = map_insert(tasks, run.new_task_id, run.held[1])
    /\ run' = [run EXCEPT
           !.pc = "shift",
           !.stack = child_ids(run.child_id, run.num_child) \o run.stack,
           !.held = <<>>]
    /\ UNCHANGED <<pre, call, res>>

\* the loop is over: tasks.remove of the parent's last child identifier, and
\* remove returns the task it took out
FinalErase ==
    /\ run.pc = "shift"
    /\ Len(run.stack) = 0
    /\ tasks' = map_remove(tasks, last_child_id(run.task_id, run.layer_idx, run.parent_childs))
    /\ res' = [err |-> "Ok", ret |-> run.task]
    /\ run' = NoRun
    /\ UNCHANGED <<pre, call>>

NextSteps ==
    \/ AddTaskWhole \/ SetPlannedValueWhole \/ SetActualCostWhole
    \/ RemoveStats \/ DecrementParent \/ EraseTarget
    \/ ShiftTake \/ ShiftInsert \/ FinalErase

SpecSteps == Init /\ [][NextSteps]_vars

\* a remove made step by step ends with the store and the result of remove
StepsAgreeWithRemove ==
    (call.op = "remove" /\ run.pc = "idle") =>
        /\ tasks = remove(call.id, pre).tasks
        /\ res = [err |-> remove(call.id, pre).err, ret |-> remove(call.id, pre).ret]

\* ----------------------------------------------------------------- claims
\* what the last call was, on the store `pre` it was made on
Called(op) == call.op = op

Succeeded == res.err = "Ok"

\* id lies in the subtree rooted at top (top itself included)
InSubtree(id, top) == Len(id) >= Len(top) /\ SubSeq(id, 1, Len(top)) = top

ProperAncestor(anc, id) == Len(anc) < Len(id) /\ SubSeq(id, 1, Len(anc)) = anc

RECURSIVE SumOver(_, _)
SumOver(S, f) ==
    IF S = {} THEN 0
    ELSE LET x == CHOOSE y \in S : TRUE
         IN  f[x] + SumOver(S \ {x}, f)

ChildKeys(map, id) == { k \in DOMAIN map : Len(k) = Len(id) + 1 /\ parent(k) = id }

\* the fields of a task other than its identifier
Fields(task) ==
    <<task.name, task.planned_value, task.actual_cost, task.status, task.num_child>>

\* C1: between calls, for every task t of the store, the identifier t.id
\* followed by n is a key of the store exactly when 1 <= n <= t.num_child
C1_ChildrenContiguous ==
    \A k \in DOMAIN tasks :
        LET t == tasks[k]
        IN  /\ \A n \in 1..t.num_child : Append(t.id, n) \in DOMAIN tasks
            /\ \A c \in DOMAIN tasks :
                  (Len(c) = Len(t.id) + 1 /\ parent(c) = t.id) =>
                      (c[Len(c)] >= 1 /\ c[Len(c)] <= t.num_child)

\* a remove has just shifted a later sibling into the place of the removed task
C1_Witness ==
    /\ Called("remove") /\ Succeeded
    /\ pre[parent(call.id)].num_child > child_idx(call.id)
    /\ tasks[parent(call.id)].num_child >= 1

\* C2: between calls, every trunk's planned_value and actual_cost equal the
\* sums over its direct children, add_task under a valued leaf included
C2_TrunkSums ==
    \A k \in DOMAIN tasks :
        is_trunk(tasks[k]) =>
            /\ tasks[k].planned_value =
                 SumOver(ChildKeys(tasks, k), [c \in ChildKeys(tasks, k) |-> tasks[c].planned_value])
            /\ tasks[k].actual_cost =
                 SumOver(ChildKeys(tasks, k), [c \in ChildKeys(tasks, k) |-> tasks[c].actual_cost])

\* C3: after remove(p.k) succeeds, every task of the subtree that was rooted at a
\* later sibling p.j (j > k) is stored under its old identifier with the index
\* at the removal depth less one, with its name, planned_value, actual_cost,
\* status and num_child as before; the subtrees of earlier siblings stay put
C3_LaterSubtreesShift ==
    (Called("remove") /\ Succeeded) =>
        LET p == parent(call.id)
            d == Len(call.id)
            k == child_idx(call.id)
        IN  \A key \in DOMAIN pre :
                (ProperAncestor(p, key) /\ key[d] # k) =>
                    LET now == IF key[d] > k THEN [key EXCEPT ![d] = @ - 1] ELSE key
                    IN  /\ now \in DOMAIN tasks
                        /\ Fields(tasks[now]) = Fields(pre[key])

\* a remove has succeeded whose later sibling had a child of its own
C3_Witness ==
    /\ Called("remove") /\ Succeeded
    /\ \E key \in DOMAIN pre :
          /\ Len(key) = Len(call.id) + 1
          /\ ProperAncestor(parent(call.id), key)
          /\ key[Len(call.id)] > child_idx(call.id)

\* C4: the root is a key of the store in every state, and remove(root) fails
\* and leaves the store as it was, with or without children under the root
C4_RootStays ==
    /\ get_root_id \in DOMAIN tasks
    /\ (Called("remove") /\ call.id = get_root_id) => (~Succeeded /\ tasks = pre)

\* remove was called on a root without children
C4_Witness ==
    /\ Called("remove") /\ call.id = get_root_id
    /\ is_leaf(pre[get_root_id])
    /\ res.err = "NoParent"

\* C5: between calls, the parent prefix of every non-root key is a key too
C5_NoOrphan ==
    \A k \in DOMAIN tasks : Len(k) > 0 => parent(k) \in DOMAIN tasks

\* a remove has just moved a grandchild of the removed task's parent
C5_Witness ==
    /\ Called("remove") /\ Succeeded
    /\ \E key \in DOMAIN tasks :
          /\ Len(key) = Len(call.id) + 1
          /\ InSubtree(key, call.id)
          /\ key \notin DOMAIN pre

\* C6: on a non-root leaf with old value old, set_planned_value(id, v) succeeds,
\* stores v on the leaf, adds v - old to the planned_value of every proper
\* ancestor and changes no other planned_value; set_actual_cost likewise for
\* actual_cost
C6_SetterPropagates ==
    /\ (Called("set_planned_value") /\ call.id \in DOMAIN pre /\ has_parent(call.id)
            /\ is_leaf(pre[call.id])) =>
         /\ Succeeded
         /\ DOMAIN tasks = DOMAIN pre
         /\ \A k \in DOMAIN pre :
               tasks[k].planned_value =
                   IF k = call.id THEN call.v
                   ELSE IF ProperAncestor(k, call.id)
                        THEN pre[k].planned_value + (call.v - pre[call.id].planned_value)
                        ELSE pre[k].planned_value
    /\ (Called("set_actual_cost") /\ call.id \in DOMAIN pre /\ has_parent(call.id)
            /\ is_leaf(pre[call.id])) =>
         /\ Succeeded
         /\ DOMAIN tasks = DOMAIN pre
         /\ \A k \in DOMAIN pre :
               tasks[k].actual_cost =
                   IF k = call.id THEN call.v
                   ELSE IF ProperAncestor(k, call.id)
                        THEN pre[k].actual_cost + (call.v - pre[call.id].actual_cost)
                        ELSE pre[k].actual_cost

\* a setter has changed the value of a leaf two levels below the root, next to
\* a task that is no ancestor of it
C6_Witness ==
    /\ Called("set_planned_value") /\ Succeeded
    /\ Len(call.id) >= 2
    /\ call.v # pre[call.id].planned_value
    /\ \E k \in DOMAIN pre : k # call.id /\ ~ProperAncestor(k, call.id)

\* C7: on every task with children, the root included, set_planned_value fails
\* with TrunkCannotChangeValue and set_actual_cost with TrunkCannotChangeCost,
\* and the store is left unchanged
C7_TrunkSetterRejected ==
    /\ (Called("set_planned_value") /\ call.id \in DOMAIN pre /\ is_trunk(pre[call.id])) =>
          (res.err = "TrunkCannotChangeValue" /\ tasks = pre)
    /\ (Called("set_actual_cost") /\ call.id \in DOMAIN pre /\ is_trunk(pre[call.id])) =>
          (res.err = "TrunkCannotChangeCost" /\ tasks = pre)

\* C8: remove on a task with children fails with TrunkCannotBeRemoved and
\* leaves the whole store unchanged
C8_TrunkRemoveRejected ==
    (Called("remove") /\ call.id \in DOMAIN pre /\ pre[call.id].num_child > 0) =>
        (res.err = "TrunkCannotBeRemoved" /\ tasks = pre)

\* remove was called on a trunk below the root whose only child carries a value
C8_Witness ==
    /\ Called("remove") /\ call.id \in DOMAIN pre
    /\ has_parent(call.id)
    /\ pre[call.id].num_child = 1
    /\ pre[call.id].planned_value > 0

\* C9: remove on a present non-root leaf succeeds, returns the task stored under
\* the identifier at the call (same identifier, same name) and leaves one entry
\* fewer; remove on an absent identifier fails with TaskNotFound and leaves the
\* store unchanged
C9_RemoveLeaf ==
    /\ (Called("remove") /\ call.id \in DOMAIN pre /\ has_parent(call.id)
            /\ is_leaf(pre[call.id])) =>
         /\ Succeeded
         /\ Len(res.ret) = 1
         /\ res.ret[1].id = pre[call.id].id
         /\ res.ret[1].name = pre[call.id].name
         /\ Cardinality(DOMAIN tasks) = Cardinality(DOMAIN pre) - 1
    /\ (Called("remove") /\ call.id \notin DOMAIN pre) =>
         (res.err = "TaskNotFound" /\ tasks = pre)

\* a remove has returned a leaf whose next sibling bore another name, and whose
\* parent keeps at least two children
C9_Witness ==
    /\ Called("remove") /\ Succeeded
    /\ Len(res.ret) = 1
    /\ call.id \in DOMAIN tasks
    /\ tasks[call.id].name # res.ret[1].name
    /\ pre[parent(call.id)].num_child >= 3

\* C10: add_task on a present parent with num_child = c succeeds, raises the
\* parent's num_child to c + 1, inserts under parent.(c+1) a task with
\* num_child 0, planned_value 0, actual_cost 0 and status InProgress, sets every
\* task on the path from the root to the new task to InProgress, and changes
\* no aggregate, num_child or key of any other task
C10_AddTask ==
    (Called("add_task") /\ call.id \in DOMAIN pre) =>
        LET c == pre[call.id].num_child
            new == Append(call.id, c + 1)
        IN  /\ Succeeded
            /\ new \notin DOMAIN pre
            /\ DOMAIN tasks = (DOMAIN pre) \cup {new}
            /\ tasks[call.id].num_child = c + 1
            /\ tasks[new] = Task_new(new, call.name)
            /\ res.ret = <<tasks[new]>>
            /\ \A k \in DOMAIN tasks :
                  (k = new \/ ProperAncestor(k, new)) => tasks[k].status = "InProgress"
            /\ \A k \in DOMAIN pre :
                  /\ tasks[k].planned_value = pre[k].planned_value
                  /\ tasks[k].actual_cost = pre[k].actual_cost
                  /\ tasks[k].name = pre[k].name
                  /\ tasks[k].id = pre[k].id
                  /\ k # call.id => tasks[k].num_child = pre[k].num_child

\* add_task has put a second-level task under a tree whose root was Done
C10_Witness ==
    /\ Called("add_task") /\ Succeeded
    /\ Len(call.id) = 1
    /\ pre[get_root_id].status = "Done"
    /\ pre[call.id].status = "Done"

\* C11: add_task with a parent identifier that is not a key of the store fails
\* with TaskNotFound and leaves the store unchanged
C11_AddTaskAbsentParent ==
    (Called("add_task") /\ call.id \notin DOMAIN pre) =>
        (res.err = "TaskNotFound" /\ tasks = pre)

\* add_task was called with an absent parent on a store that holds a trunk
\* below the root
C11_Witness ==
    /\ Called("add_task") /\ call.id \notin DOMAIN pre
    /\ \E k \in DOMAIN pre : Len(k) = 1 /\ is_trunk(pre[k])

\* an f64 result that is the number 0
IsZero(a) == a.kind = "num" /\ a.n = 0

\* C12: completion_percentage is the number of Done leaves over the number of
\* leaves (trunks and a root with children are not counted below the line)
C12_CompletionOverLeaves ==
    LET cp == completion_percentage(tasks)
    IN  /\ cp.kind = "num"
        /\ cp.n * Cardinality(leaf_tasks(tasks)) = Cardinality(done_tasks(tasks)) * cp.d

\* C13: spi is 0 whenever the root's planned_value is 0, and cpi is 0 whenever
\* the root's actual_cost is 0, a non-zero earned value included
C13_IndexZeroOnZeroDenominator ==
    /\ tasks[get_root_id].planned_value = 0 => IsZero(spi(tasks))
    /\ tasks[get_root_id].actual_cost = 0 => IsZero(cpi(tasks))

\* C14: completion_percentage is well defined (its denominator is not 0) and
\* lies in [0, 1]
C14_CompletionInUnitInterval ==
    LET cp == completion_percentage(tasks)
    IN  /\ task_count(tasks) # 0
        /\ cp.kind = "num"
        /\ 0 <= cp.n
        /\ cp.n <= cp.d

\* some leaf is Done and another is not: the percentage is strictly inside
C14_Witness ==
    LET cp == completion_percentage(tasks)
    IN  /\ cp.kind = "num" /\ 0 < cp.n /\ cp.n < cp.d
        /\ \E k \in leaf_tasks(tasks) : tasks[k].status = "InProgress"

\* C15: for every identifier, the root and a first child included, a failing
\* next_sibling fails with NoNextSibling(id) and a failing prev_sibling fails
\* with NoPrevSibling(id), whatever the cause of the failure
C15_SiblingErrorKinds ==
    \A id \in ArgIds :
        /\ next_sibling(id, tasks).err # "Ok" =>
               next_sibling(id, tasks) = Failed("NoNextSibling", id)
        /\ prev_sibling(id, tasks).err # "Ok" =>
               prev_sibling(id, tasks) = Failed("NoPrevSibling", id)

\* the store after add_task(parent, name) immediately followed by remove of
\* the task add_task returned
AddThenRemove(parent_task_id, name, map) ==
    LET added == add_task(parent_task_id, name, map)
    IN  IF added.err # "Ok" THEN added
        ELSE remove(added.ret[1].id, added.tasks)

\* C16: for every present parent, add_task followed at once by remove of the
\* task just added succeeds and leaves the root's planned_value and
\* actual_cost as they were before the add
C16_AddThenRemoveKeepsRoot ==
    \A parent_task_id \in DOMAIN tasks : \A name \in Names :
        LET after == AddThenRemove(parent_task_id, name, tasks)
        IN  /\ after.err = "Ok"
            /\ after.tasks[get_root_id].planned_value = tasks[get_root_id].planned_value
            /\ after.tasks[get_root_id].actual_cost = tasks[get_root_id].actual_cost

\* the pair is applied under a leaf below the root that carries a value and a
\* cost, so the root's aggregates are not 0
C16_Witness ==
    \E parent_task_id \in DOMAIN tasks :
        /\ Len(parent_task_id) >= 1
        /\ is_leaf(tasks[parent_task_id])
        /\ tasks[parent_task_id].planned_value > 0
        /\ tasks[parent_task_id].actual_cost > 0
        /\ tasks[get_root_id].planned_value > 0
        /\ AddThenRemove(parent_task_id, "a", tasks).err = "Ok"
        /\ DOMAIN AddThenRemove(parent_task_id, "a", tasks).tasks = DOMAIN tasks

\* C17: for every identifier that is a finite sequence of positive indices,
\* the root included, parse applied to its text form returns that identifier
C17_ParseToStringRoundTrip ==
    Called("parse_to_string") => res = [err |-> "Ok", ret |-> call.id]

\* the round trip was made on an identifier of two or more indices, one of
\* them of two digits
C17_Witness ==
    /\ Called("parse_to_string")
    /\ Len(call.id) >= 2
    /\ \E i \in DOMAIN call.id : call.id[i] >= 10
    /\ Len(call.name) >= 4

\* a piece of text that denotes a positive integer in decimal
PositiveDecimal(segment) ==
    LET digits == IF Len(segment) > 1 /\ segment[1] = "+" THEN Tail(segment)
                  ELSE segment
    IN  /\ Len(digits) > 0
        /\ \A i \in DOMAIN digits : IsDigit(digits[i])
        /\ \E i \in DOMAIN digits : digits[i] # "0"

\* C18: parse returns the root on the empty text; on any other text it
\* succeeds only if every piece between the dots is a positive decimal integer
\* and fails with BadTaskIdString otherwise, so an identifier it returns has
\* positive indices only
C18_ParseRejectsNonPositive ==
    Called("parse") =>
        /\ Len(call.name) = 0 => res = [err |-> "Ok", ret |-> get_root_id]
        /\ res.err \in {"Ok", "BadTaskIdString"}
        /\ (Len(call.name) > 0 /\ res.err = "Ok") =>
               \A i \in DOMAIN split(call.name, ".") :
                   PositiveDecimal(split(call.name, ".")[i])
        /\ res.err = "Ok" => \A i \in DOMAIN res.ret : res.ret[i] > 0

\* C19: during remove, whenever subtract_id re-inserts a task, the identifier
\* it inserts under is absent from the store at that moment, and at no point,
\* in between the mutations included, do two entries carry the same task.id
C19_ShiftNeverCollides ==
    /\ run.pc = "insert" => run.new_task_id \notin DOMAIN tasks
    /\ \A k1, k2 \in DOMAIN tasks : tasks[k1].id = tasks[k2].id => k1 = k2

\* an entry below a shifted sibling is about to be re-inserted
C19_Witness ==
    /\ run.pc = "insert"
    /\ Len(run.new_task_id) > Len(run.task_id)
    /\ run.new_task_id \notin DOMAIN tasks

\* C20: between calls, a trunk has status Done if and only if every one of
\* its direct children has status Done
C20_TrunkDoneIffChildrenDone ==
    \A k \in DOMAIN tasks :
        is_trunk(tasks[k]) =>
            (tasks[k].status = "Done" <=>
                 \A c \in 1..tasks[k].num_child : tasks[Append(k, c)].status = "Done")

\* a set_actual_cost has left a Done trunk below a root that stays InProgress
\* with one child Done and another not
C20_Witness ==
    /\ Called("set_actual_cost") /\ Succeeded
    /\ \E k \in DOMAIN tasks : Len(k) >= 1 /\ is_trunk(tasks[k]) /\ tasks[k].status = "Done"
    /\ tasks[get_root_id].status = "InProgress"
    /\ \E c, d \in 1..tasks[get_root_id].num_child :
           tasks[<<c>>].status = "Done" /\ tasks[<<d>>].status = "InProgress"

\* C21: remove is not atomic: in the store between the decrement of the
\* parent's num_child and the erase of the target, and in every store where
\* subtract_id has taken an entry out and not yet put it back (it is under
\* neither its old nor its new identifier), the parent's num_child disagrees
\* with the child identifiers present or an entry's parent or child is missing
C21_RemoveNotAtomic ==
    /\ run.pc \in {"erase", "insert"} => ~(C1_ChildrenContiguous /\ C5_NoOrphan)
    /\ run.pc = "insert" =>
           (run.child_id \notin DOMAIN tasks /\ run.new_task_id \notin DOMAIN tasks)

\* a remove is between taking out and putting back a sibling that has
\* children: those children have no parent entry at their prefix
C21_Witness ==
    /\ run.pc = "insert"
    /\ run.num_child > 0
    /\ ~C5_NoOrphan

\* key lies in the subtree of a sibling of id with a greater index
InLaterSubtree(key, id) ==
    /\ Len(key) >= Len(id)
    /\ SubSeq(key, 1, Len(id) - 1) = parent(id)
    /\ key[Len(id)] > child_idx(id)

\* C22: a successful remove(p.k) leaves every task that is not the removed
\* one, not below a sibling with index > k and not an ancestor of the removed
\* one under its identifier with all its fields; ancestors keep identifier and
\* name; a relabelled identifier differs from the old one in the index at the
\* removal depth only; and the store holds nothing else
C22_RemoveFrame ==
    (Called("remove") /\ Succeeded) =>
        /\ \A key \in DOMAIN pre \ {call.id} :
              IF InLaterSubtree(key, call.id)
              THEN \E new \in DOMAIN tasks :
                      /\ tasks[new].id = new
                      /\ Len(new) = Len(key)
                      /\ \A i \in DOMAIN key : i # Len(call.id) => new[i] = key[i]
                      /\ new[Len(call.id)] = key[Len(call.id)] - 1
              ELSE /\ key \in DOMAIN tasks
                   /\ tasks[key].id = pre[key].id
                   /\ tasks[key].name = pre[key].name
                   /\ ~ProperAncestor(key, call.id) => tasks[key] = pre[key]
        /\ Cardinality(DOMAIN tasks) = Cardinality(DOMAIN pre) - 1

\* the removed task had an earlier sibling, which carries a value, and a later
\* one, which has moved
C22_Witness ==
    /\ Called("remove") /\ Succeeded
    /\ child_idx(call.id) >= 2
    /\ pre[parent(call.id)].num_child > child_idx(call.id)
    /\ \E key \in DOMAIN pre :
          /\ Len(key) = Len(call.id) /\ parent(key) = parent(call.id)
          /\ child_idx(key) < child_idx(call.id)
          /\ pre[key].planned_value > 0
          /\ tasks[key] = pre[key]

\* C23: a successful set_actual_cost on a leaf leaves the leaf Done whatever
\* the value; so a successful remove leaves the parent Done exactly when all
\* the children it keeps are Done, and a trunk that loses its only child is
\* left a leaf with status Done
C23_SetCostMarksDone ==
    /\ (Called("set_actual_cost") /\ Succeeded) =>
           (is_leaf(tasks[call.id]) /\ tasks[call.id].status = "Done")
    /\ (Called("remove") /\ Succeeded) =>
           LET p == parent(call.id)
           IN  /\ tasks[p].status = "Done" <=>
                      \A c \in 1..tasks[p].num_child : tasks[Append(p, c)].status = "Done"
               /\ pre[p].num_child = 1 =>
                      (is_leaf(tasks[p]) /\ tasks[p].status = "Done")

\* the only child of an InProgress trunk below the root has been removed
C23_Witness ==
    /\ Called("remove") /\ Succeeded
    /\ Len(call.id) >= 2
    /\ pre[parent(call.id)].num_child = 1
    /\ pre[parent(call.id)].status = "InProgress"
    /\ pre[call.id].status = "InProgress"

\* value is the sum of f over S, taken exactly or rounded as an f64 sum is
IsSum(value, S, f) == value = SumOver(S, f) \/ value = rounded(SumOver(S, f))

\* C24: when add_task is never applied to a leaf with a non-zero planned_value
\* or actual_cost, every trunk's planned_value and actual_cost equal the sums
\* over its direct children in every reachable store, and the root's equal the
\* sums over all the leaves
C24_SumsWithoutValuedParents ==
    /\ \A k \in DOMAIN tasks :
          is_trunk(tasks[k]) =>
              /\ IsSum(tasks[k].planned_value, ChildKeys(tasks, k),
                       [c \in ChildKeys(tasks, k) |-> tasks[c].planned_value])
              /\ IsSum(tasks[k].actual_cost, ChildKeys(tasks, k),
                       [c \in ChildKeys(tasks, k) |-> tasks[c].actual_cost])
    /\ IsSum(tasks[get_root_id].planned_value, leaf_tasks(tasks),
             [c \in leaf_tasks(tasks) |-> tasks[c].planned_value])
    /\ IsSum(tasks[get_root_id].actual_cost, leaf_tasks(tasks),
             [c \in leaf_tasks(tasks) |-> tasks[c].actual_cost])

\* C25: between calls, the identifier stored inside each task is the key the
\* task is stored under, the tasks relabelled by remove's shift included
C25_IdIsKey ==
    \A k \in DOMAIN tasks : tasks[k].id = k

\* a remove has put a later sibling, a task of another name, under the key of
\* the removed one or of a sibling after it
C25_Witness ==
    /\ Called("remove") /\ Succeeded
    /\ \E key \in DOMAIN tasks :
          /\ Len(key) = Len(call.id) /\ parent(key) = parent(call.id)
          /\ child_idx(key) >= child_idx(call.id)
          /\ tasks[key].name # pre[key].name
          /\ tasks[key].id = key

\* C26: when every value passed to set_planned_value and set_actual_cost is
\* at least 0, every task's planned_value and actual_cost is at least 0 in
\* every reachable store
C26_ValuesNonNegative ==
    \A k \in DOMAIN tasks :
        tasks[k].planned_value >= 0 /\ tasks[k].actual_cost >= 0

\* C27: in every reachable store the filtered views hold leaf tasks only,
\* done_tasks and in_progress_tasks are disjoint and together are tasks(), and
\* todo_tasks is the same set as in_progress_tasks
C27_FilteredViews ==
    /\ \A k \in leaf_tasks(tasks) \cup todo_tasks(tasks) \cup
               in_progress_tasks(tasks) \cup done_tasks(tasks) :
          tasks[k].num_child = 0
    /\ done_tasks(tasks) \cap in_progress_tasks(tasks) = {}
    /\ done_tasks(tasks) \cup in_progress_tasks(tasks) = leaf_tasks(tasks)
    /\ todo_tasks(tasks) = in_progress_tasks(tasks)

\* the store holds a Done leaf, an InProgress leaf and a Done trunk, which no
\* view shows
C27_Witness ==
    /\ done_tasks(tasks) # {}
    /\ in_progress_tasks(tasks) # {}
    /\ \E k \in DOMAIN tasks :
          /\ tasks[k].num_child > 0 /\ tasks[k].status = "Done"
          /\ k \notin done_tasks(tasks)

\* a comes before b in depth-first pre-order: a is a proper prefix of b, or at
\* the first index where they differ a's is the smaller
PreOrderBefore(a, b) ==
    \/ ProperAncestor(a, b)
    \/ \E i \in 1..Len(a) :
          /\ i <= Len(b)
          /\ SubSeq(a, 1, i - 1) = SubSeq(b, 1, i - 1)
          /\ a[i] < b[i]

\* C28: to_tree_str fails no lookup and draws every entry but the root exactly
\* once, in depth-first pre-order; a node has the last-child connector exactly
\* when its index is its parent's num_child, which is when no entry exists at
\* its next-sibling identifier, and the has-more connector otherwise
C28_TreeDrawing ==
    LET out == to_tree_str(tasks)
        lines == out.lines
    IN  /\ ~out.panic
        /\ { lines[i].id : i \in DOMAIN lines } = DOMAIN tasks \ {get_root_id}
        /\ \A i, j \in DOMAIN lines : i < j => PreOrderBefore(lines[i].id, lines[j].id)
        /\ \A i \in DOMAIN lines :
              LET id == lines[i].id
              IN  /\ lines[i].connector \in {"last", "more"}
                  /\ lines[i].connector = "last" <=>
                         id[Len(id)] = tasks[parent(id)].num_child
                  /\ lines[i].connector = "last" <=>
                         Append(parent(id), id[Len(id)] + 1) \notin DOMAIN tasks
                  /\ Len(lines[i].prefix) = Len(id) - 1

\* the drawing has a has-more node with a child below it, and a last node
C28_Witness ==
    LET lines == to_tree_str(tasks).lines
    IN  /\ Len(lines) >= 3
        /\ lines[1].connector = "more"
        /\ lines[2].id = <<1, 1>>
        /\ lines[2].prefix = <<"bar">>
        /\ lines[Len(lines)].connector = "last"

\* the loop of remove is over and the final erase is the next write
AtFinalErase == run.pc = "shift" /\ Len(run.stack) = 0

\* C29: when the final erase of remove runs, the identifier it targets, the
\* parent's last child before the call, still maps to an entry the shifts
\* have left behind, which this erase deletes
C29_FinalEraseDeletes ==
    AtFinalErase =>
        last_child_id(run.task_id, run.layer_idx, run.parent_childs) \in DOMAIN tasks

\* C29, amended: when the final erase of remove runs, the identifier it
\* targets is absent from the store already (every shift took its old entry
\* out itself, and a target that was the last child was erased as the target),
\* so the erase deletes nothing and every remaining child sits at 1..num_child
C29_FinalEraseFindsNothing ==
    AtFinalErase =>
        LET last_id == last_child_id(run.task_id, run.layer_idx, run.parent_childs)
            p == parent(run.task_id)
        IN  /\ last_id \notin DOMAIN tasks
            /\ map_remove(tasks, last_id) = tasks
            /\ \A n \in 1..tasks[p].num_child : Append(p, n) \in DOMAIN tasks

\* the final erase is next after at least one later sibling has been shifted
C29_Witness ==
    /\ AtFinalErase
    /\ run.child_idx + 1 < Len(run.parent_childs)
    /\ run.task_id \in DOMAIN tasks

====
